---- MODULE Spec2Model ----
(***************************************************************************)
(* HireIndex resume analysis pipeline: the POST /api/resume/analyze route  *)
(* of the Express server (routes.ts), the Gemini classifier and analyzer   *)
(* (server/gemini.ts) and the module-level resumeCache.                    *)
(*                                                                         *)
(* JavaScript runs one callback at a time, so a handler is atomic between  *)
(* two awaits on real I/O.  Each action below is one such stretch of the   *)
(* handler: it starts when an awaited I/O operation completes and runs to  *)
(* the next I/O await or to the response.                                  *)
(***************************************************************************)
EXTENDS Integers, Sequences, FiniteSets, TLC

\* ---------------------------------------------------------------- bounds
MaxReqs == 2
MaxClock == 1

Reqs == 1..MaxReqs

\* ------------------------------------------------------- JavaScript values
\* A JSON / JavaScript value is a record tagged with its type.
Undefined == [type |-> "undefined"]
Null == [type |-> "null"]
Num(n) == [type |-> "number", n |-> n]
Str(s) == [type |-> "string", s |-> s]
Arr(items) == [type |-> "array", items |-> items]
Obj(members) == [type |-> "object", members |-> members]

\* ToBoolean(v), as used by || and !.
Truthy(v) ==
  CASE v.type = "undefined" -> FALSE
    [] v.type = "null" -> FALSE
    [] v.type = "number" -> v.n # 0
    [] v.type = "string" -> v.s # ""
    [] OTHER -> TRUE

\* a || b
OrElse(a, b) == IF Truthy(a) THEN a ELSE b

IsNullish(v) == v.type \in {"undefined", "null"}

\* v.name for a value that is not null or undefined (only own data
\* properties of objects are modelled; primitives and arrays have none of
\* the names read here).
Member(v, name) ==
  IF v.type = "object" /\ name \in DOMAIN v.members
    THEN v.members[name]
    ELSE Undefined

\* v?.name
OptMember(v, name) == IF IsNullish(v) THEN Undefined ELSE Member(v, name)

\* The own enumerable properties copied by {...v}: the members of an
\* object, the indexed elements of an array, nothing for null, undefined
\* or a number.
Spread(v) ==
  CASE v.type = "object" -> v.members
    [] v.type = "array" ->
         [k \in {ToString(i - 1) : i \in DOMAIN v.items} |->
            v.items[CHOOSE i \in DOMAIN v.items : ToString(i - 1) = k]]
    [] OTHER -> << >>

\* ------------------------------------------------------------- strings
\* Texts that the code trims, lower-cases or matches are sequences of
\* one-character strings.
WhiteSpace == {" ", "\n", "\t"}

RECURSIVE TrimStart(_)
TrimStart(s) ==
  IF s # << >> /\ Head(s) \in WhiteSpace THEN TrimStart(Tail(s)) ELSE s

RECURSIVE TrimEnd(_)
TrimEnd(s) ==
  IF s # << >> /\ s[Len(s)] \in WhiteSpace
    THEN TrimEnd(SubSeq(s, 1, Len(s) - 1))
    ELSE s

\* String.prototype.trim
Trim(s) == TrimEnd(TrimStart(s))

UpperToLower ==
  ("Y" :> "y") @@ ("E" :> "e") @@ ("S" :> "s") @@ ("N" :> "n") @@ ("O" :> "o")
  @@ ("M" :> "m") @@ ("A" :> "a") @@ ("B" :> "b")

\* String.prototype.toLowerCase
ToLowerCase(s) ==
  [i \in DOMAIN s |-> IF s[i] \in DOMAIN UpperToLower THEN UpperToLower[s[i]] ELSE s[i]]

\* String.prototype.startsWith
StartsWith(s, prefix) ==
  Len(s) >= Len(prefix) /\ SubSeq(s, 1, Len(prefix)) = prefix

\* In the text of an analysis response the units are lexical tokens instead
\* of characters: a code fence (three backticks), the language tag, white
\* space, and one token for each JSON document or run of other text.
Fence == "FENCE"
LowerToken(t) == IF t \in {"JSON", "Json"} THEN "json" ELSE t

\* ------------------------------------------------- the external service
\* One HTTP exchange with the Gemini API, as the code sees it: how the
\* awaited fetch() ends, and, when it gives a response, how the awaited
\* response.json() ends.  text is data?.candidates?.[0]?.content?.parts?.[0]?.text.
Text(chars) == [type |-> "string", chars |-> chars]

\* fetch() rejects (network error, or the abort of the 30 s timer), or
\* resolves with a response whose ok flag is set or not.
FetchFailures == {"neterr", "abort"}
FetchOutcomes == {[fetch |-> f] : f \in FetchFailures \cup {"status", "ok"}}

\* response.json() rejects, or resolves with data.
BodyOutcomes(texts) ==
  {[json |-> FALSE]} \cup {[json |-> TRUE, text |-> t] : t \in texts}

ClassifierAnswers ==
  { Text(<<" ", "Y", "e", "s", ".", "\n">>),
    Text(<<" ", "N", "O", "\n">>),
    Text(<<"m", "a", "y", "b", "e">>),
    Undefined,
    Num(7) }

\* ----------------------------------------------------- server/gemini.ts
Placeholder == "your-gemini-api-key-here"

\* process.env.GEMINI_API_KEY || "your-gemini-api-key-here"; an unset
\* variable is the empty string here, both are falsy.
GEMINI_API_KEY(env) == IF env # "" THEN env ELSE Placeholder

\* the negation of: !GEMINI_API_KEY || GEMINI_API_KEY === "your-gemini-api-key-here"
KeyConfigured(env) ==
  ~(GEMINI_API_KEY(env) = "" \/ GEMINI_API_KEY(env) = Placeholder)

\* How a call of an async function ends, or where it suspends.
Return(v) == [completion |-> "return", value |-> v]
Throw(m) == [completion |-> "throw", message |-> m]
Await(what) == [completion |-> "await", on |-> what]

\* (text || "") applied to the response text.
TextOrEmpty(t) ==
  IF t.type = "string"
    THEN t
    ELSE IF Truthy(t) THEN t ELSE Text(<< >>)

\* isResumeDocument up to its fetch: the key check.
IsResumeStart(env) ==
  IF ~KeyConfigured(env) THEN Return(TRUE) ELSE Await("fetch")

\* IsResumeOnFetch failing closed: a rejected fetch counts as "not a resume".
IsResumeOnFetch_FailClosed(x) ==
  IF x.fetch \in FetchFailures THEN Return(FALSE)
  ELSE IF x.fetch = "status" THEN Return(TRUE)
  ELSE Await("json")

\* isResumeDocument from the end of fetch to await response.json().
IsResumeOnFetch(x) ==
  IF x.fetch \in FetchFailures THEN Return(TRUE)
  ELSE IF x.fetch = "status" THEN Return(TRUE)
  ELSE Await("json")

\* IsResumeOnBody with the whole answer compared to "yes" instead of its
\* start.
IsResumeOnBody_Exact(x) ==
  IF ~x.json THEN Return(TRUE)
  ELSE LET resultText == TextOrEmpty(x.text) IN
    IF resultText.type # "string" THEN Return(TRUE)
    ELSE Return(ToLowerCase(Trim(resultText.chars)) = <<"y", "e", "s">>)

\* isResumeDocument from the end of response.json(): the try block of
\* lines 90-98.  A truthy text that is no string has no trim method; the
\* TypeError is caught with the parse errors.
IsResumeOnBody(x) ==
  IF ~x.json THEN Return(TRUE)
  ELSE LET resultText == TextOrEmpty(x.text) IN
    IF resultText.type # "string" THEN Return(TRUE)
    ELSE Return(StartsWith(ToLowerCase(Trim(resultText.chars)), <<"y", "e", "s">>))

FeedbackKeys == {"keywords", "experience", "skills", "education", "formatting"}
ScoreKeys ==
  {"overallScore", "keywordsScore", "experienceScore", "skillsScore",
   "educationScore", "formattingScore"}

\* FillSectionDefaults without the spread of line 104: only the feedback and
\* the suggestions are returned.
FillSectionDefaults_NoSpread(result) ==
  IF IsNullish(result) THEN Throw("TypeError")
  ELSE LET feedback == Member(result, "feedback")
           suggestions == Member(result, "improvementSuggestions")
       IN Return(Obj(
            ( "feedback" :> Obj([k \in FeedbackKeys |->
                  OrElse(OptMember(feedback, k), Str("No feedback provided."))])
              @@
              "improvementSuggestions" :>
                 (IF suggestions.type = "array" /\ Len(suggestions.items) > 0
                    THEN suggestions
                    ELSE Arr(<<Str("No suggestions provided.")>>)) )))

\* fillSectionDefaults.  result.feedback is read first: on null or
\* undefined that read throws a TypeError.
FillSectionDefaults(result) ==
  IF IsNullish(result) THEN Throw("TypeError")
  ELSE LET feedback == Member(result, "feedback")
           suggestions == Member(result, "improvementSuggestions")
       IN Return(Obj(
            ( "feedback" :> Obj([k \in FeedbackKeys |->
                  OrElse(OptMember(feedback, k), Str("No feedback provided."))])
              @@
              "improvementSuggestions" :>
                 (IF suggestions.type = "array" /\ Len(suggestions.items) > 0
                    THEN suggestions
                    ELSE Arr(<<Str("No suggestions provided.")>>)) )
            @@ Spread(result)))

FixedResult(score, message, suggestions) ==
  Obj([k \in ScoreKeys |-> Num(score)]
      @@ "feedback" :> Obj([k \in FeedbackKeys |-> Str(message[k])])
      @@ "improvementSuggestions" :> Arr(suggestions))

\* the literal returned at lines 127-146
NoKeyFallback ==
  FixedResult(75,
    [k \in FeedbackKeys |->
       "API not configured. Please configure Gemini API key for detailed analysis."],
    << Str("Configure your Gemini API key for detailed resume analysis."),
       Str("Ensure your resume is in PDF or DOCX format."),
       Str("Make sure your resume contains clear sections for experience, skills, and education.") >>)

\* !text || !text.trim()
IsEmptyText(text) == text = << >> \/ Trim(text) = << >>

\* AnalyzeStart without the key check: the request goes out with the
\* placeholder key.
AnalyzeStart_NoKeyCheck(env, text) ==
  IF IsEmptyText(text)
    THEN Throw("Resume text is empty. Cannot analyze an empty document.")
  ELSE Await("fetch")

\* analyzeResumeWithGemini up to its fetch.
AnalyzeStart(env, text) ==
  IF IsEmptyText(text)
    THEN Throw("Resume text is empty. Cannot analyze an empty document.")
  ELSE IF ~KeyConfigured(env) THEN Return(NoKeyFallback)
  ELSE Await("fetch")

\* analyzeResumeWithGemini from the end of fetch to await response.json().
AnalyzeOnFetch(x) ==
  IF x.fetch \in FetchFailures
    THEN Throw("Failed to connect to analysis service. Please try again later.")
  ELSE IF x.fetch = "status"
    THEN Throw("Analysis service error. Please try again later.")
  ELSE Await("json")

\* StripFences without the i flag of the first pattern.
StripFences_CaseSensitive(chars) ==
  LET s1 == Trim(chars)
      s2 == IF Len(s1) >= 2 /\ s1[1] = Fence /\ s1[2] = "json"
              THEN TrimStart(SubSeq(s1, 3, Len(s1)))
              ELSE s1
      s3 == IF s2 # << >> /\ Head(s2) = Fence THEN Tail(s2) ELSE s2
      s4 == IF s3 # << >> /\ s3[Len(s3)] = Fence
              THEN SubSeq(s3, 1, Len(s3) - 1)
              ELSE s3
  IN Trim(s4)

\* resultText.trim().replace(/^FENCEjson\s*/i, '').replace(/^FENCE/, '')
\*   .replace(/FENCE$/, '').trim()
StripFences(chars) ==
  LET s1 == Trim(chars)
      s2 == IF Len(s1) >= 2 /\ s1[1] = Fence /\ LowerToken(s1[2]) = "json"
              THEN TrimStart(SubSeq(s1, 3, Len(s1)))
              ELSE s1
      s3 == IF s2 # << >> /\ Head(s2) = Fence THEN Tail(s2) ELSE s2
      s4 == IF s3 # << >> /\ s3[Len(s3)] = Fence
              THEN SubSeq(s3, 1, Len(s3) - 1)
              ELSE s3
  IN Trim(s4)

\* The JSON documents the model lets the service answer with, by token.
AnalysisDoc(scores, feedbackKeys, suggestions) ==
  Obj([k \in scores |-> Num(82)]
      @@ "feedback" :> Obj([k \in feedbackKeys |-> Str("Clear and relevant.")])
      @@ "improvementSuggestions" :> Arr(suggestions))

JSONDocs ==
  ("{full}" :> AnalysisDoc(ScoreKeys, FeedbackKeys, <<Str("Quantify achievements.")>>))
  @@ ("{noScores}" :>
        AnalysisDoc({}, FeedbackKeys, <<Str("Quantify achievements.")>>))
  @@ ("{stamped}" :>
        Obj(AnalysisDoc(ScoreKeys, FeedbackKeys, <<Str("Quantify achievements.")>>).members
            @@ ("id" :> Num(999)) @@ ("filename" :> Str("other.pdf"))))
  @@ ("5" :> Num(5))
  @@ ("null" :> Null)

\* JSON.parse: white space around the one document is allowed; anything
\* else is a SyntaxError.
JSONParse(chars) ==
  LET s == Trim(chars) IN
  IF Len(s) = 1 /\ s[1] \in DOMAIN JSONDocs
    THEN Return(JSONDocs[s[1]])
    ELSE Throw("SyntaxError")

AnalysisAnswers ==
  { Text(<<Fence, "json", "\n", "{full}", "\n", Fence>>),
    Text(<<"{noScores}">>),
    Text(<<"{stamped}">>),
    Text(<<"5">>),
    Text(<<"null">>),
    Text(<<"Sorry,", " ", "{full}">>),
    Undefined }

\* analyzeResumeWithGemini from the end of response.json() (lines 194-217).
AnalyzeOnBody(x) ==
  IF ~x.json
    THEN Throw("Failed to parse analysis response. Please try again later.")
  ELSE LET resultText == TextOrEmpty(x.text) IN
    IF resultText.type # "string" THEN Throw("TypeError")
    ELSE LET parsed == JSONParse(StripFences(resultText.chars)) IN
      IF parsed.completion = "throw"
        THEN Throw("Failed to parse analysis results. Please try again later.")
        ELSE FillSectionDefaults(parsed.value)

\* ------------------------------------------------------------- uploads
PDF == "application/pdf"
DOCX == "application/vnd.openxmlformats-officedocument.wordprocessingml.document"

\* multer limits.fileSize: 5 * 1024 * 1024
FileSizeLimit == 5242880

\* document-parser isValidFileType: the two accepted document types.
IsValidFileType(mimetype) == mimetype \in {PDF, DOCX}

\* The byte buffers of the model, by name, with what the text extraction
\* makes of each: a text, or an error with a message.
Documents ==
  ("cv" :> Return(<<"c", "v">>))
  @@ ("blank" :> Return(<<" ", "\n">>))
  @@ ("corrupt" :> Throw("Failed to parse PDF"))

\* document-parser extractTextFromDocument(buffer, mimetype)
ExtractTextFromDocument(buffer, mimetype) == Documents[buffer]

File(name, mimetype, size, buffer) ==
  [present |-> TRUE, originalname |-> name, mimetype |-> mimetype,
   size |-> size, buffer |-> buffer]

\* a request without a file part
NoFile ==
  [present |-> FALSE, originalname |-> "", mimetype |-> "", size |-> 0,
   buffer |-> ""]

Uploads ==
  { NoFile,
    File("a.pdf", PDF, 1000, "cv"),
    File("b.docx", DOCX, 2000, "cv"),
    File("w.pdf", PDF, 1000, "blank"),
    File("x.pdf", PDF, 1000, "corrupt"),
    File("n.txt", "text/plain", 1000, "cv"),
    File("big.pdf", PDF, FileSizeLimit + 1, "cv") }

\* crypto.createHash('sha256').update(text).digest('hex'): a function of
\* the text alone; collisions are not modelled.
Sha256Hex(text) == <<"sha256", text>>

\* new Date(ms).toISOString()
ToISOString(ms) == "1970-01-01T00:00:00.00" \o ToString(ms) \o "Z"

\* ------------------------------------------------------------ the state
VARIABLES
  envKey,       \* process.env.GEMINI_API_KEY when the process started
  now,          \* the clock read by Date.now()
  resumeCache,  \* routes.ts resumeCache: hash -> stored result
  req,          \* per request: where its handler is, its locals, what it called
  ran,          \* the stretch that ran last: the request, the I/O completion
                \* it started from, its locals and response at its end
  norm,         \* a call of fillSectionDefaults: its argument and how it ended
  got,          \* a request to one of the GET routes and its response
  storage,      \* the analyses the store holds, the most recent first
  pure,         \* a call of the answer handling of gemini.ts on its own:
                \* which function, the response it is given, how it ended
  serverless    \* the serverless deployment (api/resume/analyze.ts), when
                \* there is one, fed the same uploads and completions: its
                \* cache, its handlers, and the locals and response of the
                \* stretch that ran last

vars ==
  <<envKey, now, resumeCache, req, ran, norm, got, storage, pure, serverless>>

\* no call of fillSectionDefaults is observed
NoCall == [input |-> Undefined, output |-> [completion |-> "none"]]

\* no request to a GET route was made
NoQuery == [route |-> "none"]

NoEvent == [stage |-> "none"]

\* no call of the answer handling on its own is observed
NoPure == [fn |-> "none"]

\* The handler has not started; its locals are unset.
Fresh ==
  [pc |-> "idle", file |-> NoFile, text |-> << >>, isResume |-> Undefined,
   status |-> 0, body |-> Undefined,
   outcome |-> "none", classifyCalls |-> 0, analyzerRuns |-> 0,
   analysisCalls |-> 0, responses |-> 0]

\* The handler has returned: its locals are gone.
Closed == [Fresh EXCEPT !.pc = "done"]

\* only the Express server is deployed
NoInstance == [deployed |-> FALSE]

\* api/resume/analyze.ts line 24: the instance has an empty cache and has
\* handled nothing.
Cold == [cache |-> << >>, req |-> [r \in Reqs |-> Fresh], q |-> Fresh]

EnvKeys == {"", Placeholder, "AIzaSy-key"}

Init ==
  /\ envKey \in EnvKeys
  /\ now = 1
  /\ resumeCache = << >>
  /\ req = [r \in Reqs |-> Fresh]
  /\ ran = [req |-> 0, event |-> NoEvent, q |-> Fresh]
  /\ norm = NoCall
  /\ got = NoQuery
  /\ storage = << >>
  /\ pure = NoPure
  /\ serverless = NoInstance

\* resumeCache[hash] as a JavaScript value
CacheGet(cache, hash) ==
  IF hash \in DOMAIN cache THEN cache[hash] ELSE Undefined

\* res.status(code).json(value), with the line logged before it
Send(q, code, value, outcome) ==
  [q EXCEPT !.pc = "done", !.status = code, !.body = value,
            !.outcome = outcome, !.responses = @ + 1]

Message(m) == Obj("message" :> Str(m))

\* id, filename, fileType, createdAt of lines 84-87 and 140-143
Provenance(file, ms) ==
  [id |-> Num(ms), filename |-> Str(file.originalname),
   fileType |-> Str(file.mimetype), createdAt |-> Str(ToISOString(ms))]

\* the literal of lines 83-104
NotResumeMessage ==
  "This document does not appear to be a resume. Please upload a valid resume (CV) for analysis."

NotResumeResult(file, ms) ==
  Obj(Provenance(file, ms)
      @@ FixedResult(0, [k \in FeedbackKeys |-> NotResumeMessage],
           <<Str("Please upload a resume or CV document for accurate analysis.")>>).members)

\* the literal of lines 117-136
TechnicalFallback ==
  FixedResult(70,
    [k \in FeedbackKeys |->
       "Unable to analyze " \o k \o " due to technical issues. Please try again later."],
    << Str("Please try uploading your resume again in a few moments."),
       Str("Ensure your resume is in PDF or DOCX format."),
       Str("Check that your resume contains clear sections for experience, skills, and education.") >>)

\* { id, filename, fileType, createdAt, ...analysisResult }: a key of the
\* spread result replaces the key written before it.
WithProvenance(file, ms, analysisResult) ==
  Obj(Spread(analysisResult) @@ Provenance(file, ms))

Bool(b) == [type |-> "boolean", b |-> b]

\* ------------------------------------- POST /api/resume/analyze (routes.ts)
\* The operators below are the stretches of the handler between two awaits.
\* Each takes the request's locals q, the cache and the clock, and gives the
\* locals and the cache it leaves.

\* Finish without the catch of lines 114-137: the error of the analyzer
\* reaches the outer catch, which answers 500 and stores nothing.
Finish_NoCatch(q, cache, ms, c) ==
  IF c.completion = "throw"
    THEN [q |-> Send(q, 500, Message(c.message), "error"), cache |-> cache]
    ELSE LET result == WithProvenance(q.file, ms, c.value) IN
         [q |-> Send(q, 200, result, "analyzed"),
          cache |-> (Sha256Hex(q.text) :> result) @@ cache]

\* Finish with one retry: after a first failed analysis call the call is
\* issued again.
Finish_Retry(q, cache, ms, c) ==
  IF c.completion = "throw" /\ q.analysisCalls = 1
    THEN [q |-> [q EXCEPT !.pc = "analyzeFetch", !.analysisCalls = @ + 1],
          cache |-> cache]
    ELSE LET analysisResult ==
               IF c.completion = "throw" THEN TechnicalFallback ELSE c.value
             result == WithProvenance(q.file, ms, analysisResult)
         IN [q |-> Send(q, 200, result,
                      IF c.completion = "throw" THEN "fallback" ELSE "analyzed"),
             cache |-> (Sha256Hex(q.text) :> result) @@ cache]

\* Finish that answers an error of the analyzer with 502 and its message
\* and stores nothing.
Finish_Surface(q, cache, ms, c) ==
  IF c.completion = "throw"
    THEN [q |-> Send(q, 502, Message(c.message), "error"), cache |-> cache]
    ELSE LET result == WithProvenance(q.file, ms, c.value)
         IN [q |-> Send(q, 200, result, "analyzed"),
             cache |-> (Sha256Hex(q.text) :> result) @@ cache]

\* Finish that stores its result in a cache holding nothing else.
Finish_Reset(q, cache, ms, c) ==
  LET analysisResult ==
        IF c.completion = "throw" THEN TechnicalFallback ELSE c.value
      result == WithProvenance(q.file, ms, analysisResult)
  IN [q |-> Send(q, 200, result,
               IF c.completion = "throw" THEN "fallback" ELSE "analyzed"),
      cache |-> (Sha256Hex(q.text) :> result)]

\* Finish that looks the fingerprint up again before it stores: when an
\* entry is there it answers with the entry and stores nothing.
Finish_KeepFirst(q, cache, ms, c) ==
  IF Sha256Hex(q.text) \in DOMAIN cache
    THEN [q |-> Send(q, 200, cache[Sha256Hex(q.text)], "cached"), cache |-> cache]
    ELSE LET analysisResult ==
               IF c.completion = "throw" THEN TechnicalFallback ELSE c.value
             result == WithProvenance(q.file, ms, analysisResult)
         IN [q |-> Send(q, 200, result,
                      IF c.completion = "throw" THEN "fallback" ELSE "analyzed"),
             cache |-> (Sha256Hex(q.text) :> result) @@ cache]

\* lines 139-148: c is how analyzeResumeWithGemini ended; the catch of
\* lines 114-137 replaces a thrown error by the technical fallback.
Finish(q, cache, ms, c) ==
  LET analysisResult ==
        IF c.completion = "throw" THEN TechnicalFallback ELSE c.value
      result == WithProvenance(q.file, ms, analysisResult)
  IN [q |-> Send(q, 200, result,
               IF c.completion = "throw" THEN "fallback" ELSE "analyzed"),
      cache |-> (Sha256Hex(q.text) :> result) @@ cache]

\* lines 109-112: the call of analyzeResumeWithGemini up to its first await
Analyze(q, cache, ms, env) ==
  LET c == AnalyzeStart(env, q.text)
      q1 == [q EXCEPT !.analyzerRuns = @ + 1]
  IN IF c.completion = "await"
       THEN [q |-> [q1 EXCEPT !.pc = "analyzeFetch", !.analysisCalls = @ + 1],
             cache |-> cache]
       ELSE Finish(q1, cache, ms, c)

\* Classified without the return of line 106: the NotResume result is
\* stored and sent, and the handler goes on to the analyzer.
Classified_NoReturn(q, cache, ms, env, c) ==
  LET isResume == IF c.completion = "throw" THEN TRUE ELSE c.value
      q1 == [q EXCEPT !.isResume = Bool(isResume)]
  IN IF ~isResume
       THEN LET notResumeResult == NotResumeResult(q.file, ms)
                sent == [Send(q1, 200, notResumeResult, "notresume")
                           EXCEPT !.pc = q1.pc]
            IN Analyze(sent, (Sha256Hex(q.text) :> notResumeResult) @@ cache,
                       ms, env)
       ELSE Analyze(q1, cache, ms, env)

\* Classified without the branch of lines 82-107: the analyzer is called
\* whatever the classifier said.
Classified_AnalyzeAnyway(q, cache, ms, env, c) ==
  LET isResume == IF c.completion = "throw" THEN TRUE ELSE c.value
  IN Analyze([q EXCEPT !.isResume = Bool(isResume)], cache, ms, env)

\* Classified without line 105: the NotResume result is answered but not
\* stored.
Classified_NoStore(q, cache, ms, env, c) ==
  LET isResume == IF c.completion = "throw" THEN TRUE ELSE c.value
      q1 == [q EXCEPT !.isResume = Bool(isResume)]
  IN IF ~isResume
       THEN [q |-> Send(q1, 200, NotResumeResult(q.file, ms), "notresume"),
             cache |-> cache]
       ELSE Analyze(q1, cache, ms, env)

\* lines 72-107: c is how isResumeDocument ended; the catch of lines 76-80
\* turns a thrown error into true.
Classified(q, cache, ms, env, c) ==
  LET isResume == IF c.completion = "throw" THEN TRUE ELSE c.value
      q1 == [q EXCEPT !.isResume = Bool(isResume)]
  IN IF ~isResume
       THEN LET notResumeResult == NotResumeResult(q.file, ms) IN
            [q |-> Send(q1, 200, notResumeResult, "notresume"),
             cache |-> (Sha256Hex(q.text) :> notResumeResult) @@ cache]
       ELSE Analyze(q1, cache, ms, env)

\* Extracted with entries that are good for one hit: the entry is deleted
\* when it is returned.
Extracted_Expire(q, cache, ms, env) ==
  LET hash == Sha256Hex(q.text)
      cached == CacheGet(cache, hash)
  IN IF Truthy(cached)
       THEN [q |-> Send(q, 200, cached, "cached"),
             cache |-> [h \in DOMAIN cache \ {hash} |-> cache[h]]]
       ELSE LET c == IsResumeStart(env) IN
            IF c.completion = "await"
              THEN [q |-> [q EXCEPT !.pc = "classifyFetch",
                                    !.classifyCalls = @ + 1],
                    cache |-> cache]
              ELSE Classified(q, cache, ms, env, c)

\* Extracted with a hit that stamps the entry with this upload's provenance
\* before answering.
Extracted_Restamp(q, cache, ms, env) ==
  LET hash == Sha256Hex(q.text)
      cached == CacheGet(cache, hash)
  IN IF Truthy(cached)
       THEN [q |-> Send(q, 200, Obj(Provenance(q.file, ms) @@ cached.members),
                        "cached"),
             cache |-> cache]
       ELSE LET c == IsResumeStart(env) IN
            IF c.completion = "await"
              THEN [q |-> [q EXCEPT !.pc = "classifyFetch",
                                    !.classifyCalls = @ + 1],
                    cache |-> cache]
              ELSE Classified(q, cache, ms, env, c)

\* lines 64-74: the hash, the cache lookup, the call of isResumeDocument up
\* to its first await
Extracted(q, cache, ms, env) ==
  LET hash == Sha256Hex(q.text)
      cached == CacheGet(cache, hash)
  IN IF Truthy(cached)
       THEN [q |-> Send(q, 200, cached, "cached"), cache |-> cache]
       ELSE LET c == IsResumeStart(env) IN
            IF c.completion = "await"
              THEN [q |-> [q EXCEPT !.pc = "classifyFetch",
                                    !.classifyCalls = @ + 1],
                    cache |-> cache]
              ELSE Classified(q, cache, ms, env, c)

\* ExtractFailed answering with the fixed text instead of the message of
\* the error.
ExtractFailed_Generic(q, c) ==
  Send(q, 400, Message("Failed to extract text from document"), "extracterr")

\* lines 57-62: the catch around extractTextFromDocument; c is the error
\* thrown, an Error with a message.
ExtractFailed(q, c) ==
  Send(q, 400, Message(c.message), "extracterr")

\* upload.single("file") of lines 10-23 and the start of the handler, lines
\* 36-55.  An error of multer (file filter, size limit) goes to next(err),
\* which is the error middleware of server/index.ts lines 32-37: the error
\* carries no status, so the answer is 500.
Received(q, u) ==
  IF u.present /\ ~IsValidFileType(u.mimetype)
    THEN Send(q, 500,
           Message("Invalid file type. Only PDF and DOCX files are allowed."),
           "multer")
  ELSE IF u.present /\ u.size > FileSizeLimit
    THEN Send(q, 500, Message("File too large"), "multer")
  ELSE IF ~u.present
    THEN Send(q, 400, Message("No file uploaded"), "nofile")
  ELSE [q EXCEPT !.pc = "extract", !.file = u]

\* ------------------------- the serverless handler (api/resume/analyze.ts)
\* The stretches of the handler of api/resume/analyze.ts, which calls the
\* same isResumeDocument and analyzeResumeWithGemini and keeps a cache of
\* its own.
\* lines 155-164: c is how analyzeResumeWithGemini ended; the catch of lines
\* 130-153 puts the literal in its place.
HandlerFinish(q, cache, ms, c) ==
  LET analysisResult ==
        IF c.completion = "throw"
          THEN FixedResult(70,
                 [k \in FeedbackKeys |->
                    "Unable to analyze " \o k
                      \o " due to technical issues. Please try again later."],
                 << Str("Please try uploading your resume again in a few moments."),
                    Str("Ensure your resume is in PDF or DOCX format."),
                    Str("Check that your resume contains clear sections for experience, skills, and education.") >>)
          ELSE c.value
      result ==
        Obj(Spread(analysisResult)
            @@ [id |-> Num(ms), filename |-> Str(q.file.originalname),
                fileType |-> Str(q.file.mimetype),
                createdAt |-> Str(ToISOString(ms))])
  IN [q |-> Send(q, 200, result,
               IF c.completion = "throw" THEN "fallback" ELSE "analyzed"),
      cache |-> (Sha256Hex(q.text) :> result) @@ cache]

\* lines 125-128: the call of analyzeResumeWithGemini up to its first await
HandlerAnalyze(q, cache, ms, env) ==
  LET c == AnalyzeStart(env, q.text)
      q1 == [q EXCEPT !.analyzerRuns = @ + 1]
  IN IF c.completion = "await"
       THEN [q |-> [q1 EXCEPT !.pc = "analyzeFetch", !.analysisCalls = @ + 1],
             cache |-> cache]
       ELSE HandlerFinish(q1, cache, ms, c)

\* lines 88-123: c is how isResumeDocument ended
HandlerClassified(q, cache, ms, env, c) ==
  LET isResume == IF c.completion = "throw" THEN TRUE ELSE c.value
      q1 == [q EXCEPT !.isResume = Bool(isResume)]
  IN IF ~isResume
       THEN LET notResumeResult ==
                  Obj([id |-> Num(ms), filename |-> Str(q.file.originalname),
                       fileType |-> Str(q.file.mimetype),
                       createdAt |-> Str(ToISOString(ms))]
                      @@ FixedResult(0,
                           [k \in FeedbackKeys |->
                              "This document does not appear to be a resume. Please upload a valid resume (CV) for analysis."],
                           <<Str("Please upload a resume or CV document for accurate analysis.")>>).members)
            IN [q |-> Send(q1, 200, notResumeResult, "notresume"),
                cache |-> (Sha256Hex(q.text) :> notResumeResult) @@ cache]
       ELSE HandlerAnalyze(q1, cache, ms, env)

\* lines 81-91: the hash, the cache lookup, the call of isResumeDocument up
\* to its first await
HandlerExtracted(q, cache, ms, env) ==
  LET hash == Sha256Hex(q.text)
      cached == IF hash \in DOMAIN cache THEN cache[hash] ELSE Undefined
  IN IF Truthy(cached)
       THEN [q |-> Send(q, 200, cached, "cached"), cache |-> cache]
       ELSE LET c == IsResumeStart(env) IN
            IF c.completion = "await"
              THEN [q |-> [q EXCEPT !.pc = "classifyFetch",
                                    !.classifyCalls = @ + 1],
                    cache |-> cache]
              ELSE HandlerClassified(q, cache, ms, env, c)

\* lines 74-79: the catch around extractTextFromDocument
HandlerExtractFailed(q, c) ==
  Send(q, 400, Obj("message" :> Str(c.message)), "extracterr")

\* lines 48-72: upload.single("file") is called by the handler itself, and
\* its callback answers an error of multer (file filter, size limit) with
\* 400 and the message of the error.
HandlerReceived(q, u) ==
  IF u.present /\ ~IsValidFileType(u.mimetype)
    THEN Send(q, 400,
           Obj("message" :> Str("Invalid file type. Only PDF and DOCX files are allowed.")),
           "multer")
  ELSE IF u.present /\ u.size > FileSizeLimit
    THEN Send(q, 400, Obj("message" :> Str("File too large")), "multer")
  ELSE IF ~u.present
    THEN Send(q, 400, Obj("message" :> Str("No file uploaded")), "nofile")
  ELSE [q EXCEPT !.pc = "extract", !.file = u]

\* The stretch of handler r of the serverless instance t that the completion
\* x of the given stage starts; a completion that the handler does not wait
\* for leaves it as it is.
HandlerStep(t, r, stage, x, ms, env) ==
  LET q == t.req[r]
      stay == [q |-> q, cache |-> t.cache]
      next ==
        IF stage = "upload" /\ q.pc = "idle"
          THEN [q |-> HandlerReceived(q, x), cache |-> t.cache]
        ELSE IF stage = "extract" /\ q.pc = "extract"
          THEN IF x.completion = "throw"
                 THEN [q |-> HandlerExtractFailed(q, x), cache |-> t.cache]
                 ELSE HandlerExtracted([q EXCEPT !.text = x.value], t.cache, ms, env)
        ELSE IF stage = "classify" /\ q.pc = "classifyFetch" /\ "fetch" \in DOMAIN x
          THEN LET c == IsResumeOnFetch(x) IN
               IF c.completion = "await"
                 THEN [q |-> [q EXCEPT !.pc = "classifyBody"], cache |-> t.cache]
                 ELSE HandlerClassified(q, t.cache, ms, env, c)
        ELSE IF stage = "classify" /\ q.pc = "classifyBody" /\ "json" \in DOMAIN x
          THEN HandlerClassified(q, t.cache, ms, env, IsResumeOnBody(x))
        ELSE IF stage = "analyze" /\ q.pc = "analyzeFetch" /\ "fetch" \in DOMAIN x
          THEN LET c == AnalyzeOnFetch(x) IN
               IF c.completion = "await"
                 THEN [q |-> [q EXCEPT !.pc = "analyzeBody"], cache |-> t.cache]
                 ELSE HandlerFinish(q, t.cache, ms, c)
        ELSE IF stage = "analyze" /\ q.pc = "analyzeBody" /\ "json" \in DOMAIN x
          THEN HandlerFinish(q, t.cache, ms, AnalyzeOnBody(x))
        ELSE stay
  IN [cache |-> next.cache,
      req |-> [t.req EXCEPT ![r] = IF next.q.pc = "done" THEN Closed ELSE next.q],
      q |-> next.q]

\* A stretch of the handler of request r runs: it starts from the I/O
\* completion x of the given stage and leaves the locals and the cache as
\* next says.  A handler that has answered has returned.  The serverless
\* instance, when there is one, is given the same completion at the same
\* time.
Apply(r, stage, x, next) ==
  /\ resumeCache' = next.cache
  /\ req' = [req EXCEPT ![r] = IF next.q.pc = "done" THEN Closed ELSE next.q]
  /\ ran' = [req |-> r, event |-> [stage |-> stage, x |-> x], q |-> next.q]
  /\ serverless' = IF serverless = NoInstance
                      THEN NoInstance
                      ELSE HandlerStep(serverless, r, stage, x, now, envKey)
  /\ UNCHANGED <<envKey, now, norm, got, storage, pure>>

\* A request arrives.  Requests are numbered in their order of arrival.
PostAnalyze(r) ==
  /\ req[r].pc = "idle"
  /\ IF r = 1 THEN TRUE ELSE req[r - 1].pc # "idle"
  /\ \E u \in Uploads :
       Apply(r, "upload", u,
             [q |-> Received(req[r], u), cache |-> resumeCache])

\* await extractTextFromDocument(...) completes (lines 53-62).
ExtractDone(r) ==
  /\ req[r].pc = "extract"
  /\ LET q == req[r]
         c == ExtractTextFromDocument(q.file.buffer, q.file.mimetype)
     IN IF c.completion = "throw"
          THEN Apply(r, "extract", c,
                     [q |-> ExtractFailed(q, c), cache |-> resumeCache])
          ELSE Apply(r, "extract", c,
                     Extracted([q EXCEPT !.text = c.value], resumeCache,
                               now, envKey))

\* await fetch(...) in isResumeDocument completes (gemini.ts lines 69-88).
ClassifyFetchDone(r) ==
  /\ req[r].pc = "classifyFetch"
  /\ \E x \in FetchOutcomes :
       LET q == req[r]
           c == IsResumeOnFetch(x)
       IN IF c.completion = "await"
            THEN Apply(r, "classify", x,
                       [q |-> [q EXCEPT !.pc = "classifyBody"],
                        cache |-> resumeCache])
            ELSE Apply(r, "classify", x,
                       Classified(q, resumeCache, now, envKey, c))

\* await response.json() in isResumeDocument completes (lines 90-98).
ClassifyBodyDone(r) ==
  /\ req[r].pc = "classifyBody"
  /\ \E x \in BodyOutcomes(ClassifierAnswers) :
       Apply(r, "classify", x,
             Classified(req[r], resumeCache, now, envKey, IsResumeOnBody(x)))

\* await fetch(...) in analyzeResumeWithGemini completes (lines 172-192).
AnalyzeFetchDone(r) ==
  /\ req[r].pc = "analyzeFetch"
  /\ \E x \in FetchOutcomes :
       LET q == req[r]
           c == AnalyzeOnFetch(x)
       IN IF c.completion = "await"
            THEN Apply(r, "analyze", x,
                       [q |-> [q EXCEPT !.pc = "analyzeBody"],
                        cache |-> resumeCache])
            ELSE Apply(r, "analyze", x, Finish(q, resumeCache, now, c))

\* await response.json() in analyzeResumeWithGemini completes (lines 194-217).
AnalyzeBodyDone(r) ==
  /\ req[r].pc = "analyzeBody"
  /\ \E x \in BodyOutcomes(AnalysisAnswers) :
       Apply(r, "analyze", x,
             Finish(req[r], resumeCache, now, AnalyzeOnBody(x)))

\* Time passes.
Tick ==
  /\ now < 1 + MaxClock
  /\ now' = now + 1
  /\ UNCHANGED <<envKey, resumeCache, req, ran, norm, got, storage, pure, serverless>>

Next ==
  \/ \E r \in Reqs : PostAnalyze(r)
  \/ \E r \in Reqs : ExtractDone(r)
  \/ \E r \in Reqs : ClassifyFetchDone(r)
  \/ \E r \in Reqs : ClassifyBodyDone(r)
  \/ \E r \in Reqs : AnalyzeFetchDone(r)
  \/ \E r \in Reqs : AnalyzeBodyDone(r)
  \/ Tick

Spec == Init /\ [][Next]_vars

\* Both deployments, each starting with an empty cache, receive the same
\* uploads and see the same completions at the same times.
PairInit ==
  /\ envKey \in EnvKeys
  /\ now = 1
  /\ resumeCache = << >>
  /\ req = [r \in Reqs |-> Fresh]
  /\ ran = [req |-> 0, event |-> NoEvent, q |-> Fresh]
  /\ norm = NoCall
  /\ got = NoQuery
  /\ storage = << >>
  /\ pure = NoPure
  /\ serverless = Cold

PairSpec == PairInit /\ [][Next]_vars

\* What is sure to happen.  The 30 s timer of gemini.ts lines 66-67 and
\* 169-170 aborts a fetch that has not settled, so each awaited fetch ends.
\* The timer is cleared in the finally block that follows the fetch (lines
\* 81-83 and 185-187), before response.json() is awaited: nothing ends a
\* read of the body that stalls.  The extraction works on a buffer in
\* memory and is taken to end.
LiveSpec ==
  /\ Spec
  /\ \A r \in Reqs : WF_vars(ExtractDone(r))
  /\ \A r \in Reqs : WF_vars(ClassifyFetchDone(r))
  /\ \A r \in Reqs : WF_vars(AnalyzeFetchDone(r))

\* ------------------------------------------- fillSectionDefaults on its own
\* The values JSON.parse can hand to fillSectionDefaults: objects with the
\* six scores present or not, a feedback member of any shape and a
\* suggestions member of any shape, and values that are no objects.
Absent == [type |-> "absent"]

Optional(name, v) == IF v = Absent THEN << >> ELSE name :> v

FeedbackValues ==
  { Obj(f) : f \in UNION { [S -> {Str(""), Str("Clear and relevant."), Null}] :
                             S \in SUBSET FeedbackKeys } }
  \cup {Str("Looks fine."), Null, Absent}

SuggestionValues ==
  { Arr(<< >>), Arr(<<Str("Quantify achievements.")>>), Str("none"), Null, Absent }

ScoreValues == { Num(0), Num(82), Absent }

ParsedResults ==
  { Obj([k \in (IF sc = Absent THEN {} ELSE ScoreKeys) |-> sc]
        @@ Optional("feedback", f)
        @@ Optional("improvementSuggestions", sg)) :
      sc \in ScoreValues, f \in FeedbackValues, sg \in SuggestionValues }
  \cup {Num(5), Null}

NormalizeInit ==
  /\ envKey = ""
  /\ now = 1
  /\ resumeCache = << >>
  /\ req = [r \in Reqs |-> Fresh]
  /\ ran = [req |-> 0, event |-> NoEvent, q |-> Fresh]
  /\ got = NoQuery
  /\ storage = << >>
  /\ pure = NoPure
  /\ serverless = NoInstance
  /\ norm \in {[input |-> v, output |-> [completion |-> "none"]] : v \in ParsedResults}

\* fillSectionDefaults(result) is called with the parsed value (gemini.ts
\* line 217).
Normalize ==
  /\ norm.output.completion = "none"
  /\ norm' = [norm EXCEPT !.output = FillSectionDefaults(norm.input)]
  /\ UNCHANGED <<envKey, now, resumeCache, req, ran, got, storage, pure, serverless>>

NormalizeSpec == NormalizeInit /\ [][Normalize]_vars

\* ------------------------------------------------------- the GET routes
\* Number.parseInt on a string given by its characters: white space is
\* skipped, then a sign and the longest run of decimal digits are read;
\* without a digit the result is NaN.  (Hexadecimal prefixes are not among
\* the parameters of the model.)
NaN == [type |-> "NaN"]

DigitValue ==
  ("0" :> 0) @@ ("1" :> 1) @@ ("2" :> 2) @@ ("3" :> 3) @@ ("4" :> 4)
  @@ ("5" :> 5) @@ ("6" :> 6) @@ ("7" :> 7) @@ ("8" :> 8) @@ ("9" :> 9)

RECURSIVE DigitPrefix(_)
DigitPrefix(s) ==
  IF s # << >> /\ Head(s) \in DOMAIN DigitValue
    THEN <<Head(s)>> \o DigitPrefix(Tail(s))
    ELSE << >>

RECURSIVE DigitsValue(_)
DigitsValue(s) ==
  IF s = << >> THEN 0
  ELSE 10 * DigitsValue(SubSeq(s, 1, Len(s) - 1)) + DigitValue[s[Len(s)]]

ParseInt(v) ==
  IF v.type # "string" THEN NaN
  ELSE LET t == TrimStart(v.chars)
           signed == t # << >> /\ Head(t) \in {"-", "+"}
           digits == DigitPrefix(IF signed THEN Tail(t) ELSE t)
       IN IF digits = << >> THEN NaN
          ELSE Num((IF signed /\ Head(t) = "-" THEN -1 ELSE 1) * DigitsValue(digits))

\* isNaN
IsNaN(v) == v = NaN

\* x || y for the result of parseInt: NaN and 0 are falsy
NumberOr(x, y) == IF x = NaN \/ x = Num(0) THEN y ELSE x

\* The store (./storage) is a collaborator: getResumeAnalysis(id) resolves
\* with the analysis of that id or with undefined, or rejects;
\* getRecentResumeAnalyses(limit) resolves with the limit most recent
\* analyses, or rejects.
StoredAnalysis(id) ==
  Obj(("id" :> Num(id)) @@ ("filename" :> Str("cv-" \o ToString(id) \o ".pdf"))
      @@ ("fileType" :> Str(PDF)) @@ ("createdAt" :> Str(ToISOString(id)))
      @@ AnalysisDoc(ScoreKeys, FeedbackKeys, <<Str("Quantify achievements.")>>).members)

MaxStored == 3

Stores == { [i \in 1..n |-> StoredAnalysis(n + 1 - i)] : n \in 0..MaxStored }

GetResumeAnalysis(store, id) ==
  IF \E i \in DOMAIN store : store[i].members.id = id
    THEN store[CHOOSE i \in DOMAIN store : store[i].members.id = id]
    ELSE Undefined

Min(a, b) == IF a < b THEN a ELSE b

\* How getRecentResumeAnalyses(limit) can end.  A negative limit is outside
\* the contract of the store: it rejects or resolves with any prefix.
GetRecentResumeAnalyses(store, limit) ==
  {Throw("storage unavailable")}
  \cup IF limit.n >= 0
         THEN {Return(Arr(SubSeq(store, 1, Min(limit.n, Len(store)))))}
         ELSE {Return(Arr(SubSeq(store, 1, n))) : n \in 0..Len(store)}

DemoFeedback ==
  Obj(("keywords" :> Str("Your resume contains good keywords, but could benefit from more industry-specific terminology."))
   @@ ("experience" :> Str("Your work experience is well presented with quantified achievements."))
   @@ ("skills" :> Str("Your skills section is comprehensive and well organized."))
   @@ ("education" :> Str("Education details are clearly presented with relevant highlights."))
   @@ ("formatting" :> Str("The resume has a good structure but could be more ATS-friendly.")))

DemoSuggestions ==
  Arr(<< Str("Add more industry-specific keywords throughout your resume."),
         Str("Quantify more achievements with specific metrics to demonstrate impact."),
         Str("Ensure consistent formatting of dates and headers for better ATS readability."),
         Str("Tailor your resume for each application by highlighting relevant experiences."),
         Str("Use standard section headers that are easily recognized by ATS systems.") >>)

\* the literal of lines 178-203
DemoAnalysis(id, ms) ==
  Obj(("id" :> id) @@ ("filename" :> Str("sample-resume.pdf"))
   @@ ("fileType" :> Str(PDF)) @@ ("createdAt" :> Str(ToISOString(ms)))
   @@ ("overallScore" :> Num(78)) @@ ("keywordsScore" :> Num(75))
   @@ ("experienceScore" :> Num(82)) @@ ("skillsScore" :> Num(80))
   @@ ("educationScore" :> Num(85)) @@ ("formattingScore" :> Num(70))
   @@ ("feedback" :> DemoFeedback)
   @@ ("improvementSuggestions" :> DemoSuggestions))

\* Math.random() is a generator with a state: the n-th call after the seed
\* gives the fraction Random(seed, n) / RandomSteps.
RandomSteps == 4
Seeds == 0..(RandomSteps - 1)
Random(seed, n) == (seed + n) % RandomSteps

\* Math.floor(Math.random() * width) + base, for the n-th call
RandomScore(seed, n, width, base) ==
  Num(((Random(seed, n) * width) \div RandomSteps) + base)

\* the element i (from 0) of demoAnalyses, lines 225-250
DemoEntry(i, ms, seed) ==
  Obj(("id" :> Num(i + 1))
   @@ ("filename" :> Str("sample-resume-" \o ToString(i + 1) \o ".pdf"))
   @@ ("fileType" :> Str(PDF))
   @@ ("createdAt" :> Str(ToISOString(ms - i * 86400000)))
   @@ ("overallScore" :> RandomScore(seed, 6 * i, 20, 70))
   @@ ("keywordsScore" :> RandomScore(seed, 6 * i + 1, 20, 70))
   @@ ("experienceScore" :> RandomScore(seed, 6 * i + 2, 15, 75))
   @@ ("skillsScore" :> RandomScore(seed, 6 * i + 3, 25, 65))
   @@ ("educationScore" :> RandomScore(seed, 6 * i + 4, 20, 70))
   @@ ("formattingScore" :> RandomScore(seed, 6 * i + 5, 30, 60))
   @@ ("feedback" :> DemoFeedback)
   @@ ("improvementSuggestions" :> DemoSuggestions))

\* the :id parameters and the limit parameters of the model
IdParams ==
  { Text(<<"2">>), Text(<<"9">>), Text(<<"1", "2">>), Text(<<"a", "b", "c">>),
    Text(<<"2", "a", "b">>), Text(<<"-", "1">>) }

LimitParams ==
  { Undefined, Text(<<"2">>), Text(<<"1">>), Text(<<"0">>), Text(<<"-", "1">>),
    Text(<<"7">>), Text(<<"a", "b", "c">>) }

Answer(route, param, code, value) ==
  [route |-> route, param |-> param, status |-> code, body |-> value]

\* GET /api/resume/analysis/:id, lines 158-211; db is how
\* storage.getResumeAnalysis ends.
GetAnalysis ==
  \E param \in IdParams, db \in {"resolve", "reject"} :
    /\ LET id == ParseInt(param) IN
       got' =
         IF IsNaN(id)
           THEN Answer("analysis", param, 400, Message("Invalid ID format"))
         ELSE IF db = "reject"
           THEN Answer("analysis", param, 200, DemoAnalysis(id, now))
         ELSE LET analysis == GetResumeAnalysis(storage, id) IN
           IF ~Truthy(analysis)
             THEN Answer("analysis", param, 404, Message("Analysis not found"))
             ELSE Answer("analysis", param, 200, analysis)
    /\ UNCHANGED <<envKey, now, resumeCache, req, ran, norm, storage, pure, serverless>>

\* GET /api/resume/analyses/recent, lines 214-260.  Array(limit) throws a
\* RangeError on a negative length; the outer catch answers 500.
GetRecent ==
  \E param \in LimitParams, seed \in Seeds :
    LET limit == NumberOr(ParseInt(param), Num(5)) IN
    \E db \in GetRecentResumeAnalyses(storage, limit) :
      /\ got' =
           IF db.completion = "return"
             THEN Answer("recent", param, 200, db.value)
           ELSE IF limit.n < 0
             THEN Answer("recent", param, 500, Message("Invalid array length"))
           ELSE Answer("recent", param, 200,
                       Arr([i \in 1..limit.n |-> DemoEntry(i - 1, now, seed)]))
      /\ UNCHANGED <<envKey, now, resumeCache, req, ran, norm, storage, pure, serverless>>

QueryInit ==
  /\ envKey = ""
  /\ now = 1
  /\ resumeCache = << >>
  /\ req = [r \in Reqs |-> Fresh]
  /\ ran = [req |-> 0, event |-> NoEvent, q |-> Fresh]
  /\ norm = NoCall
  /\ got = NoQuery
  /\ storage \in Stores
  /\ pure = NoPure
  /\ serverless = NoInstance

QueryNext == GetAnalysis \/ GetRecent

QuerySpec == QueryInit /\ [][QueryNext]_vars

\* ------------------------------------------ the answer handling on its own
\* The end of isResumeDocument (gemini.ts lines 90-98) on every answer text
\* of up to MaxAnswerLen characters of AnswerAlphabet, and on some longer
\* ones.
MaxAnswerLen == 4

AnswerAlphabet == {"y", "Y", "e", "E", "s", "S", " ", "."}

Chars(n) == UNION {[1..k -> AnswerAlphabet] : k \in 0..n}

LongAnswers ==
  { <<"y", "e", "s", "t", "e", "r", "d", "a", "y">>,
    <<"n", "o">>,
    <<"m", "a", "y", "b", "e">>,
    <<"\n", "\t", "Y", "E", "S", "\n">>,
    <<"n", "o", " ", "y", "e", "s">> }

AnswerTexts == {Text(c) : c \in Chars(MaxAnswerLen) \cup LongAnswers} \cup {Undefined}

Called(fn, x) == [fn |-> fn, input |-> x, output |-> [completion |-> "none"]]

PureInit(calls) ==
  /\ envKey = "AIzaSy-key"
  /\ now = 1
  /\ resumeCache = << >>
  /\ req = [r \in Reqs |-> Fresh]
  /\ ran = [req |-> 0, event |-> NoEvent, q |-> Fresh]
  /\ norm = NoCall
  /\ got = NoQuery
  /\ storage = << >>
  /\ pure \in calls
  /\ serverless = NoInstance

ClassifierInit ==
  PureInit({Called("isResumeDocument", x) : x \in BodyOutcomes(AnswerTexts)})

\* response.json() has ended with x: lines 90-98 run.
ClassifyAnswer ==
  /\ pure.fn = "isResumeDocument"
  /\ pure.output.completion = "none"
  /\ pure' = [pure EXCEPT !.output = IsResumeOnBody(pure.input)]
  /\ UNCHANGED <<envKey, now, resumeCache, req, ran, norm, got, storage, serverless>>

ClassifierSpec == ClassifierInit /\ [][ClassifyAnswer]_vars

\* The end of analyzeResumeWithGemini (lines 194-217) on answer texts made
\* of optional white space, an optional opening fence with or without the
\* language tag, a body, an optional closing fence, and white space between
\* them.
Gaps == { << >>, <<" ">>, <<"\n">>, <<" ", "\n">> }

Openings == { << >>, <<Fence>>, <<Fence, "json">>, <<Fence, "JSON">>, <<Fence, "Json">> }

Closings == { << >>, <<Fence>> }

Bodies ==
  { <<d>> : d \in DOMAIN JSONDocs }
  \cup { << >>, <<"Sorry,">>, <<"{full}", ",">>, <<"json">> }

Layouts ==
  [lead : Gaps, opening : Openings, gap : Gaps, body : Bodies,
   gapAfter : Gaps, closing : Closings, trail : Gaps]

\* the text of a layout
Laid(l) ==
  Text(l.lead \o l.opening \o l.gap \o l.body \o l.gapAfter \o l.closing \o l.trail)

FenceInit ==
  PureInit({Called("analyzeResumeWithGemini", l) : l \in Layouts})

\* response.json() has ended with data whose text is the layout of the
\* call: lines 202-217 run.
AnalyzeAnswer ==
  /\ pure.fn = "analyzeResumeWithGemini"
  /\ pure.output.completion = "none"
  /\ pure' = [pure EXCEPT
               !.output = AnalyzeOnBody([json |-> TRUE, text |-> Laid(pure.input)])]
  /\ UNCHANGED <<envKey, now, resumeCache, req, ran, norm, got, storage, serverless>>

FenceSpec == FenceInit /\ [][AnalyzeAnswer]_vars

\* ============================================================== claims
\* What the claims speak about.
\* the stretch that ran last wrote the response of its request
Answered == ran.req # 0 /\ ran.q.pc = "done"

\* the six scores of v are all n
ScoresAll(v, n) ==
  /\ v.type = "object"
  /\ \A k \in ScoreKeys : k \in DOMAIN v.members /\ v.members[k] = Num(n)

\* the handler q got a text from the extraction, and the text is empty or
\* white space only
HasBlankText(q) ==
  /\ q.file.present
  /\ q.pc # "extract"
  /\ Documents[q.file.buffer].completion = "return"
  /\ Trim(Documents[q.file.buffer].value) = << >>

HasRealText(q) ==
  /\ q.file.present
  /\ q.pc # "extract"
  /\ Documents[q.file.buffer].completion = "return"
  /\ Trim(Documents[q.file.buffer].value) # << >>

\* the handlers in progress and the one that answered last
Handlers == {req[r] : r \in Reqs} \cup {ran.q}

\* C1: a request whose extracted text hashes to a key of the cache answers
\* 200 with exactly the stored value, calls neither the classifier nor the
\* analyzer, and leaves the cache unchanged.
C1_CacheHitShortCircuit ==
  [][\A r \in Reqs :
       (/\ req[r].pc = "extract"
        /\ req'[r].pc # "extract"
        /\ Documents[req[r].file.buffer].completion = "return"
        /\ Sha256Hex(Documents[req[r].file.buffer].value) \in DOMAIN resumeCache)
       => /\ ran'.req = r
          /\ ran'.q.status = 200
          /\ ran'.q.body =
               resumeCache[Sha256Hex(Documents[req[r].file.buffer].value)]
          /\ ran'.q.classifyCalls = 0
          /\ ran'.q.analyzerRuns = 0
          /\ ran'.q.analysisCalls = 0
          /\ resumeCache' = resumeCache]_vars

\* C1 witness: a cache hit answered with the entry of an upload that had
\* another file name.
C1_Witness ==
  /\ Answered
  /\ ran.q.outcome = "cached"
  /\ ran.q.body.members.filename # Str(ran.q.file.originalname)

\* C2 (as claimed): every upload whose extracted text is empty or white
\* space ends with HTTP 400 and a message body, and no classification call
\* and no analysis call is made for it.
C2_EmptyTextRejected ==
  \A q \in Handlers :
    HasBlankText(q)
      => /\ q.classifyCalls = 0
         /\ q.analysisCalls = 0
         /\ q.pc = "done" /\ q.outcome # "none"
              => /\ q.status = 400
                 /\ DOMAIN q.body.members = {"message"}

\* C3 (as claimed): the cache never holds an entry under the fingerprint of
\* an empty or white-space-only text.
C3_EmptyTextNeverCached ==
  \A h \in DOMAIN resumeCache : Trim(h[2]) # << >>

\* a result with the six scores as numbers, the five feedback fields as
\* non-empty strings and a non-empty list of suggestions
WellFormed(v) ==
  /\ v.type = "object"
  /\ \A k \in ScoreKeys : Member(v, k).type = "number"
  /\ \A k \in FeedbackKeys :
       /\ OptMember(Member(v, "feedback"), k).type = "string"
       /\ OptMember(Member(v, "feedback"), k) # Str("")
  /\ Member(v, "improvementSuggestions").type = "array"
  /\ Member(v, "improvementSuggestions").items # << >>

\* C4 (as claimed): for an upload with non-empty text, whatever the service
\* returns, the value returned and cached has all six scores, five non-empty
\* feedback strings and a non-empty list of suggestions.
C4_ResultWellFormed ==
  /\ (Answered /\ HasRealText(ran.q)) => WellFormed(ran.q.body)
  /\ \A h \in DOMAIN resumeCache :
       Trim(h[2]) # << >> => WellFormed(resumeCache[h])

\* the I/O completion e is a failed classification call: fetch rejected (network
\* error or abort), the status was not a success, or the body did not parse
ClassifyFailed(e) ==
  /\ e.stage = "classify"
  /\ \/ /\ "fetch" \in DOMAIN e.x
        /\ e.x.fetch \in {"neterr", "abort", "status"}
     \/ /\ "json" \in DOMAIN e.x
        /\ ~e.x.json

\* C5: whenever the classification call fails, the classifier outcome the
\* pipeline uses is true, no NotResume result is produced and the Analyzer is
\* called.
C5_ClassifierFailsOpen ==
  ClassifyFailed(ran.event)
    => /\ ran.q.isResume = Bool(TRUE)
       /\ ran.q.outcome # "notresume"
       /\ ran.q.analyzerRuns = 1

\* C5 witness: a classification call that timed out, and the analysis call
\* of the same request under way.
C5_Witness ==
  /\ ClassifyFailed(ran.event)
  /\ ran.event.x = [fetch |-> "abort"]
  /\ ran.q.pc = "analyzeFetch"
  /\ req[ran.req] = ran.q

\* the I/O completion e is a classification call whose text, trimmed and
\* in lower case, is the answer "no"
AnsweredNo(e) ==
  /\ e.stage = "classify"
  /\ "json" \in DOMAIN e.x
  /\ e.x.json
  /\ e.x.text.type = "string"
  /\ ToLowerCase(Trim(e.x.text.chars)) = <<"n", "o">>

\* C6 (as claimed): a NotResume result is produced only if the
\* classification call succeeded and its text explicitly answered "no"; a
\* response without answer text does not lead to it.
C6_NotResumeOnlyOnNo ==
  (Answered /\ ran.q.outcome = "notresume") => AnsweredNo(ran.event)

\* the fixed NotResume content: six scores 0, the five fixed messages, one
\* suggestion
IsNotResume(v) ==
  /\ ScoresAll(v, 0)
  /\ Member(v, "feedback") = Obj([k \in FeedbackKeys |-> Str(NotResumeMessage)])
  /\ Member(v, "improvementSuggestions").type = "array"
  /\ Len(Member(v, "improvementSuggestions").items) = 1

\* the step answers a request whose classifier said "no": 200 with the
\* NotResume content, no Analyzer run, the answer stored under the
\* fingerprint
NonResumeStep ==
  (ran' # ran /\ AnsweredNo(ran'.event))
    => /\ ran'.q.status = 200
       /\ IsNotResume(ran'.q.body)
       /\ ran'.q.analyzerRuns = 0
       /\ ran'.q.analysisCalls = 0
       /\ Sha256Hex(ran'.q.text) \in DOMAIN resumeCache'
       /\ resumeCache'[Sha256Hex(ran'.q.text)] = ran'.q.body

\* the step answers a request from the cache with what the cache holds
HitReturnsEntry ==
  (ran' # ran /\ ran'.q.outcome = "cached")
    => /\ Sha256Hex(ran'.q.text) \in DOMAIN resumeCache
       /\ ran'.q.body = resumeCache[Sha256Hex(ran'.q.text)]

PastLookup(r) ==
  req[r].pc \in {"classifyFetch", "classifyBody", "analyzeFetch", "analyzeBody"}

AnalysisCallFailed(e) ==
  /\ e.stage = "analyze"
  /\ \/ /\ "fetch" \in DOMAIN e.x
        /\ e.x.fetch \in {"neterr", "abort", "status"}
     \/ /\ "json" \in DOMAIN e.x
        /\ ~e.x.json
     \/ /\ "json" \in DOMAIN e.x
        /\ e.x.json
        /\ \/ e.x.text.type = "undefined"
           \/ /\ e.x.text.type = "string"
              /\ JSONParse(StripFences(e.x.text.chars)).completion = "throw"

TechnicalMessages ==
  [k \in FeedbackKeys |->
     Str("Unable to analyze " \o k \o " due to technical issues. Please try again later.")]

\* C8: on a miss with a key configured, a failed analysis call gives HTTP 200
\* with the fixed result whose six scores are 70, stored in the cache under
\* the fingerprint.
C8_TechnicalFallback ==
  [][(ran' # ran /\ AnalysisCallFailed(ran'.event))
       => /\ ran'.q.status = 200
          /\ ScoresAll(ran'.q.body, 70)
          /\ Member(ran'.q.body, "feedback") = Obj(TechnicalMessages)
          /\ Len(Member(ran'.q.body, "improvementSuggestions").items) = 3
          /\ Sha256Hex(ran'.q.text) \in DOMAIN resumeCache'
          /\ resumeCache'[Sha256Hex(ran'.q.text)] = ran'.q.body]_vars

\* C8 witness: the analysis call timed out and the request was answered
\* with the score-70 result.
C8_Witness ==
  /\ Answered
  /\ AnalysisCallFailed(ran.event)
  /\ ran.event.x = [fetch |-> "abort"]
  /\ ran.q.status = 200
  /\ ScoresAll(ran.q.body, 70)

NoKey == envKey \in {"", Placeholder}

\* C9: without a key, analyze on a non-empty text returns the same fixed
\* result every time (six scores 75, the not-configured feedback, the three
\* suggestions) and no request goes to the external service.
C9_NoCredentialFallback ==
  NoKey =>
    \A q \in Handlers :
      /\ q.analysisCalls = 0
      /\ (q.analyzerRuns = 1 /\ HasRealText(q))
           => /\ q.pc = "done"
              /\ ScoresAll(q.body, 75)
              /\ Member(q.body, "feedback") =
                   Obj([k \in FeedbackKeys |->
                     Str("API not configured. Please configure Gemini API key for detailed analysis.")])
              /\ Member(q.body, "improvementSuggestions") =
                   Arr(<< Str("Configure your Gemini API key for detailed resume analysis."),
                          Str("Ensure your resume is in PDF or DOCX format."),
                          Str("Make sure your resume contains clear sections for experience, skills, and education.") >>)

\* C9 witness: the placeholder key is in place and an upload with real text
\* was analyzed.
C9_Witness ==
  /\ envKey = Placeholder
  /\ Answered
  /\ ran.q.analyzerRuns = 1
  /\ HasRealText(ran.q)
  /\ ran.q.outcome = "analyzed"

\* C10 (as claimed): the score-75 result is returned only without a key; the
\* score-70 result only with a key and after a failed or malformed analysis
\* call (or from the cache entry of such a request); never without a key.
C10_FallbackTiersDistinct ==
  Answered =>
    /\ ScoresAll(ran.q.body, 75) => NoKey
    /\ ScoresAll(ran.q.body, 70)
         => /\ ~NoKey
            /\ \/ ran.q.outcome = "cached"
               \/ ran.event.stage = "analyze"

\* a feedback field that is missing or empty
MissingOrEmpty(f) == IsNullish(f) \/ f = Str("")

\* output is the normalization of input: fillSectionDefaults returned an
\* object whose five feedback fields are those of input, with the default
\* text for each that is missing or empty; whose suggestions are those of
\* input if they are a non-empty array, and the default list otherwise; and
\* whose six scores are as in input.
Normalized(input, output) ==
  /\ output.completion = "return"
  /\ output.value.type = "object"
  /\ \A k \in FeedbackKeys :
       LET f == OptMember(Member(input, "feedback"), k) IN
       Member(Member(output.value, "feedback"), k) =
         IF MissingOrEmpty(f) THEN Str("No feedback provided.") ELSE f
  /\ LET sg == Member(input, "improvementSuggestions") IN
     Member(output.value, "improvementSuggestions") =
       IF sg.type = "array" /\ sg.items # << >>
         THEN sg
         ELSE Arr(<<Str("No suggestions provided.")>>)
  /\ \A k \in ScoreKeys :
       /\ k \in DOMAIN output.value.members <=> k \in DOMAIN Spread(input)
       /\ Member(output.value, k) = Member(input, k)

\* C11 (as claimed): for every value the response text parses to, the call
\* of fillSectionDefaults returns its normalization: defaults for the
\* missing or empty feedback fields and suggestions, everything else
\* unchanged.
C11_Normalization ==
  norm.output.completion # "none" => Normalized(norm.input, norm.output)

\* C11 (amended): the same for every parsed value other than null; on null
\* fillSectionDefaults throws a TypeError.
C11_NormalizationAmended ==
  /\ (norm.output.completion # "none" /\ norm.input # Null)
       => Normalized(norm.input, norm.output)
  /\ (norm.output.completion # "none" /\ norm.input = Null)
       => norm.output.completion = "throw"

\* C11 witness: a result whose feedback lacks only the education field came
\* back with the default text there, its other feedback and its scores kept.
C11_Witness ==
  /\ norm.output.completion = "return"
  /\ Member(norm.input, "feedback").type = "object"
  /\ DOMAIN Member(norm.input, "feedback").members = FeedbackKeys \ {"education"}
  /\ \A k \in FeedbackKeys \ {"education"} :
       /\ Member(Member(norm.input, "feedback"), k) = Str("Clear and relevant.")
       /\ Member(Member(norm.output.value, "feedback"), k) = Str("Clear and relevant.")
  /\ Member(Member(norm.output.value, "feedback"), "education") =
       Str("No feedback provided.")
  /\ ScoresAll(norm.output.value, 82)

\* the stretch that just ran received an upload whose declared type is not
\* one of the two accepted types
UnsupportedTypeArrived ==
  /\ ran' # ran
  /\ ran'.event.stage = "upload"
  /\ ran'.event.x.present
  /\ ran'.event.x.mimetype \notin {PDF, DOCX}

\* C12 (as claimed): an upload whose declared type is not PDF or DOCX is
\* answered 400 with a body that holds a message string and nothing else,
\* without extraction, classification or analysis and with the cache left
\* as it was.
C12_UnsupportedTypeRejected ==
  [][UnsupportedTypeArrived
       => /\ ran'.q.pc = "done"
          /\ ran'.q.status = 400
          /\ ran'.q.body.type = "object"
          /\ DOMAIN ran'.q.body.members = {"message"}
          /\ ran'.q.body.members.message.type = "string"
          /\ ran'.q.text = << >>
          /\ ran'.q.classifyCalls = 0
          /\ ran'.q.analyzerRuns = 0
          /\ ran'.q.analysisCalls = 0
          /\ resumeCache' = resumeCache]_vars

\* C13: when the text extraction throws, the request answers 400 with the
\* message of the error; it has no text, so no fingerprint is computed or
\* looked up; the classifier and the analyzer are not called and the cache
\* stays as it was.  A request without a file answers 400 and leaves the
\* cache as it was.
C13_ExtractionFailureRejected ==
  [][/\ (ran' # ran /\ ran'.event.stage = "extract"
            /\ ran'.event.x.completion = "throw")
          => /\ ran'.q.pc = "done"
             /\ ran'.q.status = 400
             /\ ran'.q.body = Message(ran'.event.x.message)
             /\ ran'.q.text = << >>
             /\ ran'.q.outcome = "extracterr"
             /\ ran'.q.classifyCalls = 0
             /\ ran'.q.analyzerRuns = 0
             /\ ran'.q.analysisCalls = 0
             /\ resumeCache' = resumeCache
     /\ (ran' # ran /\ ran'.event.stage = "upload" /\ ~ran'.event.x.present)
          => /\ ran'.q.pc = "done"
             /\ ran'.q.status = 400
             /\ DOMAIN ran'.q.body.members = {"message"}
             /\ resumeCache' = resumeCache]_vars

\* C13 witness: an upload whose extraction failed was answered 400 while
\* the cache held an entry.
C13_Witness ==
  /\ Answered
  /\ ran.event.stage = "extract"
  /\ ran.event.x.completion = "throw"
  /\ ran.q.status = 400
  /\ resumeCache # << >>

\* C14 (as claimed): once the cache holds a value for a fingerprint, no
\* step replaces that entry by a different value, whatever the interleaving
\* of the requests.
C14_CacheEntryImmutable ==
  [][\A h \in DOMAIN resumeCache :
       /\ h \in DOMAIN resumeCache'
       /\ resumeCache'[h] = resumeCache[h]]_vars

\* C15 (as claimed): every request that was received is answered in the
\* end: none of its awaits (extraction, classification call, analysis call
\* and the reads of their response bodies) is left waiting forever.
C15_EveryRequestAnswered ==
  \A r \in Reqs : (req[r].pc # "idle") ~> (req[r].pc = "done")

\* The states of a request in order: Received is the wait for the
\* extraction; then the classification call, the analysis call, and Done.
\* CacheHit, NotResume, Analyzed and Fallback are passed within the stretch
\* that answers and show in the outcome.
Rank ==
  ("idle" :> 0) @@ ("extract" :> 1) @@ ("classifyFetch" :> 2)
  @@ ("classifyBody" :> 3) @@ ("analyzeFetch" :> 4) @@ ("analyzeBody" :> 5)
  @@ ("done" :> 6)

\* every step that changes a request moves it forward
ForwardOnly ==
  \A r \in Reqs :
    req'[r] # req[r] => Rank[req'[r].pc] > Rank[req[r].pc]

\* the answer just written is a result that the cache holds under the
\* fingerprint of the request's text
ReturnedStoredResult ==
  /\ ran'.q.status = 200
  /\ ran'.q.outcome \in {"cached", "notresume", "analyzed", "fallback"}
  /\ Sha256Hex(ran'.q.text) \in DOMAIN resumeCache'
  /\ resumeCache'[Sha256Hex(ran'.q.text)] = ran'.q.body

\* the answer just written is a client error with a message
ReturnedClientError ==
  /\ ran'.q.status = 400
  /\ DOMAIN ran'.q.body.members = {"message"}

\* C16 (as claimed): a request only moves forward through its states, none
\* is entered twice, and a request that reaches Done has returned a result
\* stored in the cache under its fingerprint or a client error.
C16_RequestStateMachine ==
  [][/\ ForwardOnly
     /\ (ran' # ran /\ ran'.q.pc = "done")
          => (ReturnedStoredResult \/ ReturnedClientError)]_vars

\* C17 (as claimed): the value returned and stored on a cache miss carries
\* the provenance of this request: the original name and the declared type
\* of the uploaded file, and the id and createdAt made from the clock when
\* the result was built, whatever the parsed result of the service holds.
C17_OwnProvenance ==
  [][(/\ ran' # ran
      /\ ran'.q.pc = "done"
      /\ ran'.q.outcome \in {"notresume", "analyzed", "fallback"})
       => /\ Member(ran'.q.body, "filename") = Str(ran'.q.file.originalname)
          /\ Member(ran'.q.body, "fileType") = Str(ran'.q.file.mimetype)
          /\ Member(ran'.q.body, "id") = Num(now)
          /\ Member(ran'.q.body, "createdAt") = Str(ToISOString(now))
          /\ resumeCache'[Sha256Hex(ran'.q.text)] = ran'.q.body]_vars

\* C18: no request issues more than one classification call or more than
\* one analysis call to the external service, whatever the calls return.
C18_NoRetry ==
  \A q \in Handlers :
    /\ q.classifyCalls <= 1
    /\ q.analysisCalls <= 1
    /\ q.analyzerRuns <= 1

\* C18 witness: a request whose analysis call failed was answered with the
\* fallback after one classification call and one analysis call.
C18_Witness ==
  /\ Answered
  /\ AnalysisCallFailed(ran.event)
  /\ ran.q.outcome = "fallback"
  /\ ran.q.classifyCalls = 1
  /\ ran.q.analysisCalls = 1

\* the parameter is a decimal integer: an optional minus sign and digits,
\* nothing else
IsIntegerText(param) ==
  /\ param.type = "string"
  /\ LET d == IF param.chars # << >> /\ Head(param.chars) = "-"
                THEN Tail(param.chars) ELSE param.chars
     IN d # << >> /\ DigitPrefix(d) = d

IntegerOf(param) ==
  IF Head(param.chars) = "-"
    THEN 0 - DigitsValue(Tail(param.chars))
    ELSE DigitsValue(param.chars)

\* C19 (as claimed): GET /api/resume/analysis/:id answers 400 when the id
\* is not numeric, 404 when the store holds no analysis with that id, 200
\* with the stored analysis otherwise, and never 200 with a body that is not
\* the analysis stored under that id.
C19_AnalysisById ==
  got.route = "analysis" =>
    IF ~IsIntegerText(got.param)
      THEN got.status = 400
      ELSE LET stored == GetResumeAnalysis(storage, Num(IntegerOf(got.param))) IN
           IF stored = Undefined
             THEN got.status = 404
             ELSE got.status = 200 /\ got.body = stored

\* C20 (as claimed): GET /api/resume/analyses/recent?limit=N answers 200
\* with a sequence of at most N results (none for N below 1) for every
\* integer N, whether the store answers or fails.
C20_RecentAtMostN ==
  (got.route = "recent" /\ IsIntegerText(got.param))
    => /\ got.status = 200
       /\ got.body.type = "array"
       /\ Len(got.body.items) <= IntegerOf(got.param)

\* C21: a request that missed the cache runs its own classification call,
\* is left where it is, with its locals, by every step of another request,
\* and when it answers it answers 200 with the result it computed itself
\* (after its own analysis unless its classifier said no) and the cache
\* then holds that result under the fingerprint, also when another request
\* with the same text has stored one before.
C21_DuplicateWork ==
  [][\A r \in Reqs :
       PastLookup(r)
         => /\ req[r].classifyCalls = 1
            /\ (ran' # ran /\ ran'.req # r) => req'[r] = req[r]
            /\ (ran' # ran /\ ran'.req = r /\ ran'.q.pc = "done")
                 => /\ ran'.q.status = 200
                    /\ ran'.q.outcome \in {"notresume", "analyzed", "fallback"}
                    /\ ran'.q.outcome # "notresume" => ran'.q.analyzerRuns = 1
                    /\ resumeCache'[Sha256Hex(req[r].text)] = ran'.q.body]_vars

\* C21 witness: a request has answered with the result it computed and the
\* cache holds it, while another request with the same text, which missed
\* the cache before, is still at work.
C21_Witness ==
  /\ Answered
  /\ ran.q.outcome \in {"notresume", "analyzed", "fallback"}
  /\ resumeCache[Sha256Hex(ran.q.text)] = ran.q.body
  /\ \E r \in Reqs :
       /\ r # ran.req
       /\ PastLookup(r)
       /\ req[r].text = ran.q.text

\* C22: a step of a request leaves every cache entry stored under a
\* fingerprint other than that of the request's own extracted text as it
\* was, and an answer taken from the cache is the entry under the request's
\* own fingerprint.
C22_FingerprintsIndependent ==
  [][\A h \in DOMAIN resumeCache :
       \/ /\ h \in DOMAIN resumeCache'
          /\ resumeCache'[h] = resumeCache[h]
          /\ (ran' # ran /\ ran'.q.outcome = "cached" /\ h = Sha256Hex(ran'.q.text))
               => ran'.q.body = resumeCache[h]
       \/ /\ ran' # ran
          /\ ran'.q.text # << >>
          /\ h = Sha256Hex(ran'.q.text)]_vars

\* C22 witness: a request has stored its result while the cache holds an
\* entry under another fingerprint.
C22_Witness ==
  /\ Answered
  /\ ran.q.outcome \in {"notresume", "analyzed", "fallback"}
  /\ resumeCache[Sha256Hex(ran.q.text)] = ran.q.body
  /\ \E h \in DOMAIN resumeCache : h # Sha256Hex(ran.q.text)

\* C23: in every step of a request, (a) a classification call is issued
\* only by the stretch that looked the fingerprint up and found no entry,
\* (b) the analyzer is entered only with the classifier outcome known and
\* true, after the classification call when one was made, (c) a request
\* whose outcome is false never enters the analyzer nor issues an analysis
\* call, and (d) the cache is written only by the stretch that has
\* determined the result (NotResume, analysis or fallback), with that
\* result, under the fingerprint.
C23_PipelineOrder ==
  [][ran' # ran =>
       LET r == ran'.req
           q == req[r]
           q1 == ran'.q
       IN /\ q1.classifyCalls > q.classifyCalls
               => /\ q.pc = "extract"
                  /\ ~Truthy(CacheGet(resumeCache, Sha256Hex(q1.text)))
          /\ q1.analyzerRuns > q.analyzerRuns
               => /\ q1.isResume = Bool(TRUE)
                  /\ q1.outcome # "cached"
                  /\ IF KeyConfigured(envKey)
                       THEN q.pc \in {"classifyFetch", "classifyBody"}
                            /\ q.classifyCalls = 1
                       ELSE q.pc = "extract"
          /\ q1.analysisCalls > q.analysisCalls
               => q1.analyzerRuns > q.analyzerRuns
          /\ q1.isResume = Bool(FALSE)
               => q1.analyzerRuns = 0 /\ q1.analysisCalls = 0
          /\ resumeCache' # resumeCache
               => /\ q1.pc = "done"
                  /\ q1.outcome \in {"notresume", "analyzed", "fallback"}
                  /\ q1.outcome = "notresume" <=> q1.isResume = Bool(FALSE)
                  /\ q1.outcome # "notresume" => q1.analyzerRuns = 1
                  /\ resumeCache' = (Sha256Hex(q1.text) :> q1.body) @@ resumeCache]_vars

\* C23 witness: a request that missed the cache has gone through the whole
\* pipeline, one classification call answered yes and one analysis call,
\* and has stored the analysis.
C23_Witness ==
  /\ Answered
  /\ ran.q.outcome = "analyzed"
  /\ ran.q.classifyCalls = 1
  /\ ran.q.isResume = Bool(TRUE)
  /\ ran.q.analysisCalls = 1
  /\ resumeCache[Sha256Hex(ran.q.text)] = ran.q.body

\* the characters begin, after white space, with "yes" in any letter case
BeginsWithYes(chars) ==
  \E i \in 0..Len(chars) :
    /\ \A j \in 1..i : chars[j] \in WhiteSpace
    /\ Len(chars) >= i + 3
    /\ chars[i + 1] \in {"y", "Y"}
    /\ chars[i + 2] \in {"e", "E"}
    /\ chars[i + 3] \in {"s", "S"}

\* the answer text of a classification call that succeeded; a missing text
\* is the empty string
AnswerChars(x) == IF x.text = Undefined THEN << >> ELSE x.text.chars

\* C24: when the classification call succeeds, isResumeDocument returns
\* true exactly when its answer text, white space and letter case aside,
\* begins with "yes": so for "Yes.", " YES" and "yesterday", and not for
\* "no", "maybe" and the empty text.
C24_ClassifierRule ==
  (pure.fn = "isResumeDocument" /\ pure.output.completion # "none" /\ pure.input.json)
    => LET chars == AnswerChars(pure.input) IN
       /\ pure.output = Return(BeginsWithYes(chars))
       /\ chars \in { <<"Y", "e", "s", ".">>, <<" ", "Y", "E", "S">>,
                       <<"y", "e", "s", "t", "e", "r", "d", "a", "y">> }
            => pure.output = Return(TRUE)
       /\ chars \in { <<"n", "o">>, <<"m", "a", "y", "b", "e">>, << >> }
            => pure.output = Return(FALSE)

\* C24 witness: the answer "yesterday" has given true.
C24_Witness ==
  /\ pure.fn = "isResumeDocument"
  /\ pure.input.json
  /\ pure.input.text = Text(<<"y", "e", "s", "t", "e", "r", "d", "a", "y">>)
  /\ pure.output = Return(TRUE)

\* C25 (as claimed): without a key no request issues a classification or an
\* analysis call; the classifier outcome, once known, is true; and a
\* request that has entered the analyzer answers 200 with the score-75
\* result, which the cache then holds under the fingerprint of its text.
C25_NoCredentialNoCall ==
  NoKey =>
    /\ \A q \in Handlers :
         /\ q.classifyCalls = 0
         /\ q.analysisCalls = 0
         /\ q.isResume \in {Undefined, Bool(TRUE)}
    /\ (ran.req # 0 /\ ran.q.analyzerRuns = 1)
         => /\ ran.q.pc = "done"
            /\ ran.q.status = 200
            /\ ScoresAll(ran.q.body, 75)
            /\ CacheGet(resumeCache, Sha256Hex(ran.q.text)) = ran.q.body

\* C26: no step removes a fingerprint from the cache, and every request
\* whose extraction gives a text with a fingerprint in the cache is
\* answered from the cache: 200 with the entry, nothing else done.
C26_CacheNeverShrinks ==
  [][/\ DOMAIN resumeCache \subseteq DOMAIN resumeCache'
     /\ (/\ ran' # ran
         /\ ran'.event.stage = "extract"
         /\ ran'.event.x.completion = "return"
         /\ Sha256Hex(ran'.event.x.value) \in DOMAIN resumeCache)
          => /\ ran'.q.outcome = "cached"
             /\ ran'.q.status = 200
             /\ ran'.q.body = resumeCache[Sha256Hex(ran'.event.x.value)]
             /\ ran'.q.classifyCalls = 0
             /\ ran'.q.analyzerRuns = 0
             /\ resumeCache' = resumeCache]_vars

\* C26 witness: a request is answered from the cache with an entry made in
\* an earlier clock tick, and the entry is still there.
C26_Witness ==
  /\ Answered
  /\ ran.q.outcome = "cached"
  /\ now = 2
  /\ Member(ran.q.body, "id") = Num(1)
  /\ CacheGet(resumeCache, Sha256Hex(ran.q.text)) = ran.q.body

\* the layout is a JSON document that parses, inside an opening fence, with
\* or without the language tag, and a closing fence
Wrapped(l) ==
  /\ l.opening # << >>
  /\ l.closing = <<Fence>>
  /\ Len(l.body) = 1
  /\ l.body[1] \in DOMAIN JSONDocs

\* how analyzeResumeWithGemini ends on the text chars given as it is
OnText(chars) == AnalyzeOnBody([json |-> TRUE, text |-> Text(chars)])

\* C27: an analysis response that is a parsable JSON text J inside an
\* opening fence (with the tag json in any letter case, or without tag) and
\* a closing fence ends as the response J alone does, and a response whose
\* text does not parse after the stripping throws the error "Failed to
\* parse analysis results. Please try again later.".
C27_FenceTransparent ==
  (pure.fn = "analyzeResumeWithGemini" /\ pure.output.completion # "none")
    => /\ Wrapped(pure.input) => pure.output = OnText(pure.input.body)
       /\ JSONParse(StripFences(Laid(pure.input).chars)).completion = "throw"
            => pure.output =
                 Throw("Failed to parse analysis results. Please try again later.")

\* C27 witness: the full analysis inside a fence tagged JSON in capitals,
\* with line breaks around it, has given the normalized analysis.
C27_Witness ==
  /\ pure.fn = "analyzeResumeWithGemini"
  /\ pure.input.opening = <<Fence, "JSON">>
  /\ pure.input.gap = <<"\n">>
  /\ pure.input.body = <<"{full}">>
  /\ pure.input.closing = <<Fence>>
  /\ pure.output = FillSectionDefaults(JSONDocs["{full}"])

\* the value is an object with a feedback object of the five sections and a
\* non-empty array of suggestions
Structured(v) ==
  /\ v.type = "object"
  /\ {"feedback", "improvementSuggestions"} \subseteq DOMAIN v.members
  /\ v.members["feedback"].type = "object"
  /\ DOMAIN v.members["feedback"].members = FeedbackKeys
  /\ v.members["improvementSuggestions"].type = "array"
  /\ v.members["improvementSuggestions"].items # << >>

\* the stretch that ran last started at or after a text extraction that
\* succeeded
AfterExtraction ==
  \/ ran.event.stage = "extract" /\ ran.event.x.completion = "return"
  \/ ran.event.stage \in {"classify", "analyze"}

\* C28: every answer given once the extraction has succeeded is 200 with a
\* structured result, however the calls of the external service ended
\* (rejected, aborted by the timer, bad status, unreadable body, a text that
\* is no JSON, JSON null, JSON that is no object).
C28_AlwaysOkAfterExtraction ==
  (Answered /\ AfterExtraction)
    => /\ ran.q.status = 200
       /\ Structured(ran.q.body)

\* C28 witness: the analysis call answered with the JSON text null and the
\* request answered 200.
C28_Witness ==
  /\ Answered
  /\ ran.event.stage = "analyze"
  /\ "json" \in DOMAIN ran.event.x
  /\ ran.event.x.json
  /\ ran.event.x.text = Text(<<"null">>)
  /\ ran.q.status = 200

\* C29: a handler that is still running has sent no response; the stretch
\* in which it returns sends exactly one response, whichever way it ends
\* (no file, upload refused, extraction failed, cache hit, NotResume,
\* analysis, fallback); a handler that has returned runs no more; and the
\* cache changes only in the stretch that sends the response.
C29_ExactlyOneResponse ==
  [][ran' # ran =>
       LET q == req[ran'.req]
           q1 == ran'.q
       IN /\ q.pc # "done"
          /\ q.responses = 0
          /\ q1.responses = IF q1.pc = "done" THEN 1 ELSE 0
          /\ q1.pc = "done"
               => q1.outcome \in {"nofile", "multer", "extracterr", "cached",
                                  "notresume", "analyzed", "fallback"}
          /\ resumeCache' # resumeCache => q1.pc = "done"]_vars

\* C29 witness: a handler has returned after storing the technical
\* fallback and has sent one response.
C29_Witness ==
  /\ Answered
  /\ ran.q.outcome = "fallback"
  /\ ran.q.responses = 1
  /\ CacheGet(resumeCache, Sha256Hex(ran.q.text)) = ran.q.body
  /\ req[ran.req] = Closed

\* C30 (as claimed): when a request stores its result, the id of the result
\* differs from the id of every entry that the cache held before, whether
\* under another fingerprint or under the same one, and also when the
\* entries were made in the same clock tick.
C30_UniqueIds ==
  [][(ran' # ran /\ ran'.q.outcome \in {"notresume", "analyzed", "fallback"})
       => \A g \in DOMAIN resumeCache :
            Member(resumeCache[g], "id") # Member(ran'.q.body, "id")]_vars

\* the scores, the feedback and the suggestions of a response body
AnalysisFields(v) ==
  IF v.type = "object"
    THEN [k \in DOMAIN v.members
                 \cap (ScoreKeys \cup {"feedback", "improvementSuggestions"})
            |-> v.members[k]]
    ELSE << >>

\* C31 (as claimed): whenever the Express route answers a request, the
\* serverless handler, started with an empty cache and given the same
\* uploads and the same completions, has answered it too, with the same
\* status and the same analysis fields; uploads refused by the upload
\* filter included.
C31_SamePipeline ==
  Answered
    => /\ serverless.q.pc = "done"
       /\ serverless.q.status = ran.q.status
       /\ AnalysisFields(serverless.q.body) = AnalysisFields(ran.q.body)

====
